---- MODULE Spec2Model ----
(***************************************************************************)
(* Model of lxd/container_console.go: the console websocket bridge.        *)
(*                                                                         *)
(* One session (consoleWs) is modelled with its concurrent activities:     *)
(*   - the HTTP handshake handlers, each one call of consoleWs.Connect;    *)
(*   - the orchestrator, consoleWs.Do, with its finisher closure;          *)
(*   - the control goroutine started by Do (select, then the read loop);   *)
(*   - the mirror goroutine started by Do;                                 *)
(*   - the environment: the container's Console call, the websocket peers  *)
(*     and the two directions of shared.WebsocketConsoleMirror.            *)
(* Every statement of the source that touches shared state (the conns map, *)
(* connsLock, the channels, the pty) is one step of its activity.          *)
(***************************************************************************)
EXTENDS Integers, Sequences, FiniteSets, TLC

\* ------------------------------------------------------------------ bounds

\* Number of HTTP upgrade requests (calls of Connect) made during the session.
MaxHandlers == 2

\* ------------------------------------------------------- program constants

\* Capacity of allConnected and controlConnected: make(chan bool, 1).
ChanCap == 1

\* The key of the control channel in conns and fds.
ControlFd == -1

\* The keys of the data channels: conns[0] is the only one.
DataFds == {0}

\* Keys of conns and of fds, as containerConsolePost fills them.
Fds == {ControlFd} \cup DataFds

\* The nil *websocket.Conn. A connection made by handler h is identified by h.
Nil == 0

Handlers == 1..MaxHandlers

\* fds: the secret of each channel (shared.RandomCryptoString, distinct strings).
fds == [fd \in Fds |-> IF fd = ControlFd THEN "secret-control" ELSE "secret-0"]

\* The values of the "secret" form field a client may present.
Secrets == {"", "wrong", "secret-control", "secret-0"}

\* Terminal sizes <<width, height>> a client may ask for in the POST body.
Sizes == {<<120, 40>>, <<0, 40>>, <<120, 0>>}

\* --------------------------------------------------------- strconv.Atoi

\* Characters are one-character strings; a string is a sequence of them.
Digits == <<"0", "1", "2", "3", "4", "5", "6", "7", "8", "9">>

IsDigit(ch) == \E i \in 1..10 : Digits[i] = ch

DigitVal(ch) == (CHOOSE i \in 1..10 : Digits[i] = ch) - 1

RECURSIVE ParseDigits(_, _)
\* The digit loop of Atoi: n = n*10 + digit, a syntax error on any other byte.
ParseDigits(s, n) ==
    IF s = <<>> THEN [ok |-> TRUE, val |-> n]
    ELSE IF ~IsDigit(Head(s)) THEN [ok |-> FALSE, val |-> 0]
    ELSE ParseDigits(Tail(s), n * 10 + DigitVal(Head(s)))

\* strconv.Atoi: an optional sign, then at least one decimal digit, nothing else.
Atoi(s) ==
    IF s = <<>> THEN [ok |-> FALSE, val |-> 0]
    ELSE LET signed == Head(s) \in {"-", "+"}
             body == IF signed THEN Tail(s) ELSE s
             r == IF body = <<>> THEN [ok |-> FALSE, val |-> 0]
                  ELSE ParseDigits(body, 0)
         IN  IF ~r.ok THEN [ok |-> FALSE, val |-> 0]
             ELSE [ok |-> TRUE, val |-> IF Head(s) = "-" THEN 0 - r.val ELSE r.val]

\* ------------------------------------------------- control socket frames

\* Argument maps (Args of api.ContainerConsoleControl, a map[string]string) a
\* control client may send: both sizes as numbers, with and without a sign,
\* a width that is no number, a height that is a bare sign, a missing key.
ArgMaps ==
    { [width |-> <<"8", "0">>, height |-> <<"2", "4">>],
      [width |-> <<"+", "8", "0">>, height |-> <<"2", "4">>],
      [width |-> <<"8", "x">>, height |-> <<"2", "4">>],
      [width |-> <<"8", "0">>, height |-> <<"-">>],
      [height |-> <<"2", "4">>] }

\* A frame read from the control socket: text that is JSON of the expected
\* shape (json = TRUE) carrying a command and its arguments, or anything else.
Frames ==
    [json : {TRUE}, command : {"window-resize"}, args : ArgMaps]
    \cup { [json |-> TRUE, command |-> "window-close",
            args |-> [width |-> <<"8", "0">>, height |-> <<"2", "4">>]],
           [json |-> FALSE, command |-> "", args |-> <<>>] }

\* The local buf of the control loop when no frame is being handled.
NoFrame == [json |-> FALSE, command |-> "none", args |-> <<>>]

\* Reading a missing key of a Go map yields the zero value, the empty string.
MapGet(m, k) == IF k \in DOMAIN m THEN m[k] ELSE <<>>

\* json.Unmarshal(buf, &command): an error, or the decoded command.
Unmarshal(frame) ==
    [err |-> ~frame.json, Command |-> frame.command, Args |-> frame.args]

\* shared.SetSize on the master descriptor: the ioctl may fail, and it cannot
\* succeed on a descriptor that is not open.
SetSizeResults(masterState) == IF masterState = "open" THEN {TRUE, FALSE} ELSE {FALSE}

\* A mutated loop body: a resize whose width does not parse is still applied,
\* with the zero value Atoi returned.
ResizeRequestNoWidthCheck(frame) ==
    LET command == Unmarshal(frame)
        w == Atoi(MapGet(command.Args, "width"))
        h == Atoi(MapGet(command.Args, "height"))
    IN  IF command.err THEN [resize |-> FALSE, width |-> 0, height |-> 0]
        ELSE IF command.Command # "window-resize"
             THEN [resize |-> FALSE, width |-> 0, height |-> 0]
        ELSE IF ~h.ok THEN [resize |-> FALSE, width |-> 0, height |-> 0]
        ELSE [resize |-> TRUE, width |-> w.val, height |-> h.val]

\* A mutated loop body that takes every command for a window-resize.
ResizeRequestAnyCommand(frame) ==
    LET command == Unmarshal(frame)
        w == Atoi(MapGet(command.Args, "width"))
        h == Atoi(MapGet(command.Args, "height"))
    IN  IF command.err THEN [resize |-> FALSE, width |-> 0, height |-> 0]
        ELSE IF ~w.ok THEN [resize |-> FALSE, width |-> 0, height |-> 0]
        ELSE IF ~h.ok THEN [resize |-> FALSE, width |-> 0, height |-> 0]
        ELSE [resize |-> TRUE, width |-> w.val, height |-> h.val]

\* The body of the control loop after a frame was read: whether SetSize is
\* called, and with which arguments. Every "continue" is resize = FALSE.
ResizeRequest(frame) ==
    LET command == Unmarshal(frame)
        w == Atoi(MapGet(command.Args, "width"))
        h == Atoi(MapGet(command.Args, "height"))
    IN  IF command.err THEN [resize |-> FALSE, width |-> 0, height |-> 0]
        ELSE IF command.Command # "window-resize"
             THEN [resize |-> FALSE, width |-> 0, height |-> 0]
        ELSE IF ~w.ok THEN [resize |-> FALSE, width |-> 0, height |-> 0]
        ELSE IF ~h.ok THEN [resize |-> FALSE, width |-> 0, height |-> 0]
        ELSE [resize |-> TRUE, width |-> w.val, height |-> h.val]

\* ------------------------------------------------------------------- state

VARIABLES
    width,              \* consoleWs.width
    height,             \* consoleWs.height
    conns,              \* consoleWs.conns: channel key -> connection or Nil
    connsLock,          \* consoleWs.connsLock: TRUE while some activity holds it
    allConnected,       \* number of values buffered in consoleWs.allConnected
    controlConnected,   \* number of values buffered in consoleWs.controlConnected
    handler,            \* each call of Connect: its position and its locals
    doPc,               \* position of Do
    doResult,           \* what Do returned
    consoleErr,         \* what container.Console returned
    master,             \* the pty master: "none", "open" or "closed"
    slave,              \* the pty slave: "none", "open" or "closed"
    geom,               \* the window size of the pty, <<width, height>>
    initSized,          \* Do has made its initial call of shared.SetSize
    ptyOpens,           \* number of successful calls of shared.OpenPty
    pumpPc,             \* position of the control goroutine
    pumpExit,           \* how the control goroutine ended
    pumpConn,           \* the control goroutine's local conn
    pumpFrame,          \* the frame the control goroutine is handling
    mirrorPc,           \* position of the mirror goroutine
    mirrorConn,         \* the mirror goroutine's local conn
    readDone,           \* the mirror's read direction has reported
    writeDone,          \* the mirror's write direction has reported
    wgEOF,              \* counter of the WaitGroup wgEOF
    closes              \* number of calls of Close on the data connection

vars ==
    << width, height, conns, connsLock, allConnected, controlConnected, handler,
       doPc, doResult, consoleErr, master, slave, geom, initSized,
       ptyOpens, pumpPc, pumpExit, pumpConn, pumpFrame, mirrorPc,
       mirrorConn, readDone, writeDone, wgEOF, closes >>

sessionVars == << width, height >>
tableVars == << conns, connsLock >>
signalVars == << allConnected, controlConnected >>
doVars == << doPc, doResult, consoleErr >>
ptyVars == << master, slave, geom, initSized, ptyOpens >>
pumpVars == << pumpPc, pumpExit, pumpConn, pumpFrame >>
mirrorVars == << mirrorPc, mirrorConn, readDone, writeDone, wgEOF, closes >>

\* The window size of a pty nobody has set.
NoSize == <<0, 0>>

\* A handler that has not been called yet.
IdleHandler == [pc |-> "idle", secret |-> "", fd |-> ControlFd, res |-> "none"]

\* The state containerConsolePost leaves: both slots nil, both channels empty.
Init ==
    /\ \E size \in Sizes : width = size[1] /\ height = size[2]
    /\ conns = [fd \in Fds |-> Nil]
    /\ connsLock = FALSE
    /\ allConnected = 0
    /\ controlConnected = 0
    /\ handler = [h \in Handlers |-> IdleHandler]
    /\ doPc = "notStarted"
    /\ doResult = "none"
    /\ consoleErr = "none"
    /\ master = "none"
    /\ slave = "none"
    /\ geom = NoSize
    /\ initSized = FALSE
    /\ ptyOpens = 0
    /\ pumpPc = "notStarted"
    /\ pumpExit = "none"
    /\ pumpConn = Nil
    /\ pumpFrame = NoFrame
    /\ mirrorPc = "notStarted"
    /\ mirrorConn = Nil
    /\ readDone = FALSE
    /\ writeDone = FALSE
    /\ wgEOF = 0
    /\ closes = 0

\* ----------------------------------------------------- consoleWs.Connect

\* Requests are numbered in the order in which they arrive.
Arrives(h) ==
    /\ handler[h].pc = "idle"
    /\ \A g \in Handlers : g < h => handler[g].pc # "idle"

SetPc(h, pc) == [handler EXCEPT ![h].pc = pc]

Return(h, res) == [handler EXCEPT ![h].pc = "returned", ![h].res = res]

\* A mutated lookup: a secret that matches no channel is taken for the data
\* channel's instead of being refused.
LookupDefaultData(secret) ==
    IF secret = "" THEN [res |-> "missing secret", fd |-> ControlFd]
    ELSE IF \E fd \in Fds : fds[fd] = secret
         THEN [res |-> "match", fd |-> CHOOSE fd \in Fds : fds[fd] = secret]
    ELSE [res |-> "match", fd |-> 0]

\* The secret check and the scan of fds: the channel whose secret was
\* presented, "missing secret" for an empty one, os.ErrPermission for no match.
Lookup(secret) ==
    IF secret = "" THEN [res |-> "missing secret", fd |-> ControlFd]
    ELSE IF \E fd \in Fds : fds[fd] = secret
         THEN [res |-> "match", fd |-> CHOOSE fd \in Fds : fds[fd] = secret]
    ELSE [res |-> "ErrPermission", fd |-> ControlFd]

\* Connect is called with a secret no channel has (or none): it returns the error.
ConnectReject(h) ==
    /\ Arrives(h)
    /\ \E secret \in Secrets :
         /\ Lookup(secret).res # "match"
         /\ handler' = [handler EXCEPT ![h] =
                [pc |-> "returned", secret |-> secret, fd |-> ControlFd,
                 res |-> Lookup(secret).res]]
    /\ UNCHANGED << sessionVars, tableVars, signalVars, doVars, ptyVars, pumpVars,
                    mirrorVars >>

\* The secret matches a channel but the websocket upgrade fails.
ConnectUpgradeFail(h) ==
    /\ Arrives(h)
    /\ \E secret \in Secrets :
         /\ Lookup(secret).res = "match"
         /\ handler' = [handler EXCEPT ![h] =
                [pc |-> "returned", secret |-> secret, fd |-> Lookup(secret).fd,
                 res |-> "upgrade error"]]
    /\ UNCHANGED << sessionVars, tableVars, signalVars, doVars, ptyVars, pumpVars,
                    mirrorVars >>

\* The secret matches a channel and the upgrade yields the connection h.
ConnectUpgrade(h) ==
    /\ Arrives(h)
    /\ \E secret \in Secrets :
         /\ Lookup(secret).res = "match"
         /\ handler' = [handler EXCEPT ![h] =
                [pc |-> "bindLock", secret |-> secret, fd |-> Lookup(secret).fd,
                 res |-> "none"]]
    /\ UNCHANGED << sessionVars, tableVars, signalVars, doVars, ptyVars, pumpVars,
                    mirrorVars >>

\* s.connsLock.Lock() before the slot is written.
ConnectBindLock(h) ==
    /\ handler[h].pc = "bindLock"
    /\ ~connsLock
    /\ connsLock' = TRUE
    /\ handler' = SetPc(h, "bind")
    /\ UNCHANGED << sessionVars, conns, signalVars, doVars, ptyVars, pumpVars,
                    mirrorVars >>

\* A mutated bind that builds the map anew, with the one connection in it.
BindSlotFresh(c, fd, conn) == [i \in DOMAIN c |-> IF i = fd THEN conn ELSE Nil]

\* A mutated bind: a slot that holds a connection is left as it is.
BindSlotIfAbsent(c, fd, conn) == IF c[fd] = Nil THEN [c EXCEPT ![fd] = conn] ELSE c

\* A mutated bind that leaves the map as it was.
BindSlotForgotten(c, fd, conn) == c

\* s.conns[fd] = conn
BindSlot(c, fd, conn) == [c EXCEPT ![fd] = conn]

\* The slot is written and the lock released; the control channel goes on to
\* signal controlConnected, a data channel to look at the data slots.
ConnectBind(h) ==
    /\ handler[h].pc = "bind"
    /\ conns' = BindSlot(conns, handler[h].fd, h)
    /\ connsLock' = FALSE
    /\ handler' = SetPc(h, IF handler[h].fd = ControlFd THEN "sendControl"
                                                        ELSE "checkLock")
    /\ UNCHANGED << sessionVars, signalVars, doVars, ptyVars, pumpVars, mirrorVars >>

\* A send on a buffered channel proceeds only while the buffer has room.
CanSend(buffered) == buffered < ChanCap

\* A mutated send that forgets the value.
AfterSendLost(buffered) == buffered

\* The buffer after a send.
AfterSend(buffered) == IF buffered < ChanCap THEN buffered + 1 ELSE buffered

\* s.controlConnected <- true; return nil
ConnectSendControl(h) ==
    /\ handler[h].pc = "sendControl"
    /\ CanSend(controlConnected)
    /\ controlConnected' = AfterSend(controlConnected)
    /\ handler' = Return(h, "nil")
    /\ UNCHANGED << sessionVars, tableVars, allConnected, doVars, ptyVars, pumpVars,
                    mirrorVars >>

\* s.connsLock.Lock() before the data slots are read.
ConnectCheckLock(h) ==
    /\ handler[h].pc = "checkLock"
    /\ ~connsLock
    /\ connsLock' = TRUE
    /\ handler' = SetPc(h, "check")
    /\ UNCHANGED << sessionVars, conns, signalVars, doVars, ptyVars, pumpVars,
                    mirrorVars >>

\* The loop over conns: no key other than -1 holds nil.
AllDataBound(c) == \A i \in DOMAIN c : i # ControlFd => c[i] # Nil

\* A mutated check that keeps the lock when every data slot is bound.
ConnectCheckKeepsLock(h) ==
    /\ handler[h].pc = "check"
    /\ connsLock' = AllDataBound(conns)
    /\ handler' = IF AllDataBound(conns) THEN SetPc(h, "sendAll") ELSE Return(h, "nil")
    /\ UNCHANGED << sessionVars, conns, signalVars, doVars, ptyVars, pumpVars,
                    mirrorVars >>

\* The data slots are read and the lock released: return nil when one is
\* still nil, otherwise go on to signal allConnected.
ConnectCheck(h) ==
    /\ handler[h].pc = "check"
    /\ connsLock' = FALSE
    /\ handler' = IF AllDataBound(conns) THEN SetPc(h, "sendAll") ELSE Return(h, "nil")
    /\ UNCHANGED << sessionVars, conns, signalVars, doVars, ptyVars, pumpVars,
                    mirrorVars >>

\* s.allConnected <- true; return nil
ConnectSendAll(h) ==
    /\ handler[h].pc = "sendAll"
    /\ CanSend(allConnected)
    /\ allConnected' = AfterSend(allConnected)
    /\ handler' = Return(h, "nil")
    /\ UNCHANGED << sessionVars, tableVars, controlConnected, doVars, ptyVars,
                    pumpVars, mirrorVars >>

\* ---------------------------------------------------------- consoleWs.Do

\* The operation framework runs Do.
DoStart ==
    /\ doPc = "notStarted"
    /\ doPc' = "waitAllConnected"
    /\ UNCHANGED << sessionVars, tableVars, signalVars, handler, doResult, consoleErr,
                    ptyVars, pumpVars, mirrorVars >>

\* A mutated wait: Do goes on without the signal.
CanReceiveAlways(buffered) == TRUE

\* A receive from a buffered channel proceeds only when a value is buffered.
CanReceive(buffered) == buffered > 0

\* The buffer after a receive.
AfterReceive(buffered) == IF buffered > 0 THEN buffered - 1 ELSE buffered

\* <-s.allConnected
DoWaitAllConnected ==
    /\ doPc = "waitAllConnected"
    /\ CanReceive(allConnected)
    /\ allConnected' = AfterReceive(allConnected)
    /\ doPc' = "openPty"
    /\ UNCHANGED << sessionVars, tableVars, controlConnected, handler, doResult,
                    consoleErr, ptyVars, pumpVars, mirrorVars >>

\* shared.OpenPty succeeds: master and slave are open.
DoOpenPty ==
    /\ doPc = "openPty"
    /\ master' = "open"
    /\ slave' = "open"
    /\ ptyOpens' = ptyOpens + 1
    /\ doPc' = "setSize"
    /\ UNCHANGED << sessionVars, tableVars, signalVars, handler, doResult, consoleErr,
                    geom, initSized, pumpVars, mirrorVars >>

\* A mutated failure of shared.OpenPty: the error is dropped and Do goes on.
DoOpenPtyFailIgnored ==
    /\ doPc = "openPty"
    /\ doPc' = "setSize"
    /\ UNCHANGED << sessionVars, tableVars, signalVars, handler, doResult, consoleErr,
                    ptyVars, pumpVars, mirrorVars >>

\* shared.OpenPty fails: Do returns the error.
DoOpenPtyFail ==
    /\ doPc = "openPty"
    /\ doResult' = "openpty error"
    /\ doPc' = "returned"
    /\ UNCHANGED << sessionVars, tableVars, signalVars, handler, consoleErr,
                    ptyVars, pumpVars, mirrorVars >>

\* A mutated guard: the size is applied when either dimension is positive.
WantsInitialSizeEither(w, h) == w > 0 \/ h > 0

\* if s.width > 0 && s.height > 0
WantsInitialSize(w, h) == w > 0 /\ h > 0

\* The initial shared.SetSize, whose error is not looked at.
DoSetSize ==
    /\ doPc = "setSize"
    /\ IF WantsInitialSize(width, height)
       THEN \E ok \in SetSizeResults(master) :
              /\ initSized' = TRUE
              /\ geom' = IF ok THEN <<width, height>> ELSE geom
       ELSE UNCHANGED << initSized, geom >>
    /\ doPc' = "spawn"
    /\ UNCHANGED << sessionVars, tableVars, signalVars, handler, doResult, consoleErr,
                    master, slave, ptyOpens, pumpVars, mirrorVars >>

\* controlExit is made, wgEOF.Add(1), and the two goroutines are started.
DoSpawn ==
    /\ doPc = "spawn"
    /\ wgEOF' = wgEOF + 1
    /\ pumpPc' = "select"
    /\ mirrorPc' = "lock"
    /\ doPc' = "console"
    /\ UNCHANGED << sessionVars, tableVars, signalVars, handler, doResult, consoleErr,
                    ptyVars, pumpExit, pumpConn, pumpFrame, mirrorConn, readDone,
                    writeDone, closes >>

\* What s.container.Console(slave) may return.
ConsoleResults == {"nil", "console error"}

\* if err != nil { return err }; return finisher(err)
RunsFinisher(err) == err = "nil"

\* s.container.Console(slave) returns; its error is returned at once, and only
\* a nil error reaches the finisher.
DoConsoleReturn ==
    /\ doPc = "console"
    /\ \E err \in ConsoleResults :
         /\ consoleErr' = err
         /\ IF RunsFinisher(err)
            THEN doPc' = "finCloseSlave" /\ UNCHANGED doResult
            ELSE doPc' = "returned" /\ doResult' = err
    /\ UNCHANGED << sessionVars, tableVars, signalVars, handler, ptyVars,
                    pumpVars, mirrorVars >>

\* finisher: slave.Close()
FinCloseSlave ==
    /\ doPc = "finCloseSlave"
    /\ slave' = "closed"
    /\ doPc' = "finLock"
    /\ UNCHANGED << sessionVars, tableVars, signalVars, handler, doResult, consoleErr,
                    master, geom, initSized, ptyOpens, pumpVars,
                    mirrorVars >>

\* finisher: s.connsLock.Lock()
FinLock ==
    /\ doPc = "finLock"
    /\ ~connsLock
    /\ connsLock' = TRUE
    /\ doPc' = "finGet"
    /\ UNCHANGED << sessionVars, conns, signalVars, handler, doResult, consoleErr,
                    ptyVars, pumpVars, mirrorVars >>

\* A mutated finisher that never fires controlExit.
NeedsControlExitNever(conn) == FALSE

\* if conn == nil
NeedsControlExit(conn) == conn = Nil

\* finisher: conn := s.conns[-1]; s.connsLock.Unlock()
FinGet ==
    /\ doPc = "finGet"
    /\ connsLock' = FALSE
    /\ doPc' = IF NeedsControlExit(conns[ControlFd]) THEN "finExit" ELSE "finWait"
    /\ UNCHANGED << sessionVars, conns, signalVars, handler, doResult, consoleErr,
                    ptyVars, pumpVars, mirrorVars >>

\* finisher: controlExit <- true, an unbuffered send, taken together with the
\* receive of the control goroutine's select.
FinControlExit ==
    /\ doPc = "finExit"
    /\ pumpPc = "select"
    /\ pumpPc' = "exited"
    /\ pumpExit' = "controlExit"
    /\ doPc' = "finWait"
    /\ UNCHANGED << sessionVars, tableVars, signalVars, handler, doResult, consoleErr,
                    ptyVars, pumpConn, pumpFrame, mirrorVars >>

\* A mutated WaitGroup whose Wait returns at once.
WaitReturnsAtOnce(counter) == TRUE

\* sync.WaitGroup.Wait returns when the counter is zero.
WaitReturns(counter) == counter = 0

\* finisher: wgEOF.Wait()
FinWait ==
    /\ doPc = "finWait"
    /\ WaitReturns(wgEOF)
    /\ doPc' = "finCloseMaster"
    /\ UNCHANGED << sessionVars, tableVars, signalVars, handler, doResult, consoleErr,
                    ptyVars, pumpVars, mirrorVars >>

\* What Close on a descriptor may return.
CloseResults == {"nil", "close error"}

\* A mutated finisher that returns the error of master.Close() when there is one.
FinisherReturnCloseErr(cmdErr, closeErr) == IF closeErr # "nil" THEN closeErr ELSE cmdErr

\* finisher: return cmdErr. The result of master.Close() is not looked at.
FinisherReturn(cmdErr, closeErr) == cmdErr

\* finisher: master.Close(); return cmdErr
FinCloseMaster ==
    /\ doPc = "finCloseMaster"
    /\ master' = "closed"
    /\ \E closeErr \in CloseResults : doResult' = FinisherReturn(consoleErr, closeErr)
    /\ doPc' = "returned"
    /\ UNCHANGED << sessionVars, tableVars, signalVars, handler, consoleErr,
                    slave, geom, initSized, ptyOpens, pumpVars, mirrorVars >>

\* ------------------------------------------------ the control goroutine

\* select: case <-s.controlConnected
PumpControlConnected ==
    /\ pumpPc = "select"
    /\ CanReceive(controlConnected)
    /\ controlConnected' = AfterReceive(controlConnected)
    /\ pumpPc' = "loopLock"
    /\ UNCHANGED << sessionVars, tableVars, allConnected, handler, doVars, ptyVars,
                    pumpExit, pumpConn, pumpFrame, mirrorVars >>

\* loop: s.connsLock.Lock()
PumpLock ==
    /\ pumpPc = "loopLock"
    /\ ~connsLock
    /\ connsLock' = TRUE
    /\ pumpPc' = "loopGet"
    /\ UNCHANGED << sessionVars, conns, signalVars, handler, doVars, ptyVars, pumpExit,
                    pumpConn, pumpFrame, mirrorVars >>

\* loop: conn := s.conns[-1]; s.connsLock.Unlock(). NextReader on a nil
\* connection is a nil dereference: the goroutine panics.
PumpGet ==
    /\ pumpPc = "loopGet"
    /\ pumpConn' = conns[ControlFd]
    /\ connsLock' = FALSE
    /\ IF conns[ControlFd] = Nil
       THEN pumpPc' = "exited" /\ pumpExit' = "panic"
       ELSE pumpPc' = "read" /\ UNCHANGED pumpExit
    /\ UNCHANGED << sessionVars, conns, signalVars, handler, doVars, ptyVars, pumpFrame,
                    mirrorVars >>

\* loop: a close message, a NextReader error or a ReadAll error: break.
PumpBreak ==
    /\ pumpPc = "read"
    /\ pumpPc' = "exited"
    /\ pumpExit' = "break"
    /\ UNCHANGED << sessionVars, tableVars, signalVars, handler, doVars, ptyVars,
                    pumpConn, pumpFrame, mirrorVars >>

\* loop: conn.NextReader() and ioutil.ReadAll(r) deliver a frame.
PumpRead ==
    /\ pumpPc = "read"
    /\ \E frame \in Frames : pumpFrame' = frame
    /\ pumpPc' = "handle"
    /\ UNCHANGED << sessionVars, tableVars, signalVars, handler, doVars, ptyVars,
                    pumpExit, pumpConn, mirrorVars >>

\* loop: the frame is decoded and handled; whatever it holds, and whatever
\* SetSize returns, the loop goes on with the next iteration.
PumpHandle ==
    /\ pumpPc = "handle"
    /\ LET rq == ResizeRequest(pumpFrame)
       IN  IF rq.resize
           THEN \E ok \in SetSizeResults(master) :
                  geom' = IF ok THEN <<rq.width, rq.height>> ELSE geom
           ELSE UNCHANGED geom
    /\ pumpFrame' = NoFrame
    /\ pumpPc' = "loopLock"
    /\ UNCHANGED << sessionVars, tableVars, signalVars, handler, doVars, master, slave,
                    initSized, ptyOpens, pumpExit, pumpConn, mirrorVars >>

\* -------------------------------------------------- the mirror goroutine

\* s.connsLock.Lock()
MirrorLock ==
    /\ mirrorPc = "lock"
    /\ ~connsLock
    /\ connsLock' = TRUE
    /\ mirrorPc' = "get"
    /\ UNCHANGED << sessionVars, conns, signalVars, handler, doVars, ptyVars, pumpVars,
                    mirrorConn, readDone, writeDone, wgEOF, closes >>

\* conn := s.conns[0]; s.connsLock.Unlock(); shared.WebsocketConsoleMirror
\* starts its two directions and the goroutine waits for readDone.
MirrorGet ==
    /\ mirrorPc = "get"
    /\ mirrorConn' = conns[0]
    /\ connsLock' = FALSE
    /\ mirrorPc' = "waitRead"
    /\ UNCHANGED << sessionVars, conns, signalVars, handler, doVars, ptyVars, pumpVars,
                    readDone, writeDone, wgEOF, closes >>

\* Whether the two directions of the mirror are running.
Mirroring == mirrorPc \in {"waitRead", "waitWrite"}

\* The direction websocket -> pty master ends and reports on readDone.
ReadDirectionDone ==
    /\ Mirroring
    /\ ~readDone
    /\ readDone' = TRUE
    /\ UNCHANGED << sessionVars, tableVars, signalVars, handler, doVars, ptyVars,
                    pumpVars, mirrorPc, mirrorConn, writeDone, wgEOF, closes >>

\* The direction pty master -> websocket ends and reports on writeDone.
WriteDirectionDone ==
    /\ Mirroring
    /\ ~writeDone
    /\ writeDone' = TRUE
    /\ UNCHANGED << sessionVars, tableVars, signalVars, handler, doVars, ptyVars,
                    pumpVars, mirrorPc, mirrorConn, readDone, wgEOF, closes >>

\* <-readDone
MirrorReadDone ==
    /\ mirrorPc = "waitRead"
    /\ readDone
    /\ mirrorPc' = "waitWrite"
    /\ UNCHANGED << sessionVars, tableVars, signalVars, handler, doVars, ptyVars,
                    pumpVars, mirrorConn, readDone, writeDone, wgEOF, closes >>

\* A mutated mirror goroutine that does not wait for the write direction.
MirrorWriteDoneNoWait ==
    /\ mirrorPc = "waitWrite"
    /\ mirrorPc' = "close"
    /\ UNCHANGED << sessionVars, tableVars, signalVars, handler, doVars, ptyVars,
                    pumpVars, mirrorConn, readDone, writeDone, wgEOF, closes >>

\* <-writeDone
MirrorWriteDone ==
    /\ mirrorPc = "waitWrite"
    /\ writeDone
    /\ mirrorPc' = "close"
    /\ UNCHANGED << sessionVars, tableVars, signalVars, handler, doVars, ptyVars,
                    pumpVars, mirrorConn, readDone, writeDone, wgEOF, closes >>

\* conn.Close()
MirrorClose ==
    /\ mirrorPc = "close"
    /\ closes' = closes + 1
    /\ mirrorPc' = "wgDone"
    /\ UNCHANGED << sessionVars, tableVars, signalVars, handler, doVars, ptyVars,
                    pumpVars, mirrorConn, readDone, writeDone, wgEOF >>

\* wgEOF.Done()
MirrorWgDone ==
    /\ mirrorPc = "wgDone"
    /\ wgEOF' = wgEOF - 1
    /\ mirrorPc' = "done"
    /\ UNCHANGED << sessionVars, tableVars, signalVars, handler, doVars, ptyVars,
                    pumpVars, mirrorConn, readDone, writeDone, closes >>

\* ---------------------------------------------------------- specification

\* The steps of the calls of Connect.
ConnectStep(h) ==
    \/ ConnectReject(h)
    \/ ConnectUpgradeFail(h)
    \/ ConnectUpgrade(h)
    \/ ConnectBindLock(h)
    \/ ConnectBind(h)
    \/ ConnectSendControl(h)
    \/ ConnectCheckLock(h)
    \/ ConnectCheck(h)
    \/ ConnectSendAll(h)

\* The steps of Do and of its finisher.
DoStep ==
    \/ DoStart
    \/ DoWaitAllConnected
    \/ DoOpenPty
    \/ DoOpenPtyFail
    \/ DoSetSize
    \/ DoSpawn
    \/ DoConsoleReturn
    \/ FinCloseSlave
    \/ FinLock
    \/ FinGet
    \/ FinControlExit
    \/ FinWait
    \/ FinCloseMaster

\* The steps of the control goroutine.
PumpStep ==
    \/ PumpControlConnected
    \/ PumpLock
    \/ PumpGet
    \/ PumpBreak
    \/ PumpRead
    \/ PumpHandle

\* The steps of the mirror goroutine and of the mirror's two directions.
MirrorStep ==
    \/ MirrorLock
    \/ MirrorGet
    \/ ReadDirectionDone
    \/ WriteDirectionDone
    \/ MirrorReadDone
    \/ MirrorWriteDone
    \/ MirrorClose
    \/ MirrorWgDone

Next ==
    \/ \E h \in Handlers : ConnectStep(h)
    \/ DoStep
    \/ PumpStep
    \/ MirrorStep

Spec == Init /\ [][Next]_vars

\* The steps of a call of Connect other than taking the lock.
ConnectRuns(h) ==
    \/ ConnectBind(h)
    \/ ConnectSendControl(h)
    \/ ConnectCheck(h)
    \/ ConnectSendAll(h)

\* The steps in which a call of Connect takes the lock.
ConnectLocks(h) == ConnectBindLock(h) \/ ConnectCheckLock(h)

\* The steps of Do other than taking the lock and the return of Console.
DoRuns ==
    \/ DoWaitAllConnected
    \/ DoOpenPty
    \/ DoOpenPtyFail
    \/ DoSetSize
    \/ DoSpawn
    \/ FinCloseSlave
    \/ FinGet
    \/ FinControlExit
    \/ FinWait
    \/ FinCloseMaster

\* The steps of the control goroutine other than taking the lock and reading.
PumpRuns == PumpControlConnected \/ PumpGet \/ PumpHandle

\* The steps of the mirror goroutine other than taking the lock.
MirrorRuns ==
    \/ MirrorGet
    \/ MirrorReadDone
    \/ MirrorWriteDone
    \/ MirrorClose
    \/ MirrorWgDone

\* The scheduling of the code: a goroutine that can take its next step takes
\* it (weak fairness of the steps of each activity, of which at most one is
\* possible at a time), and sync.Mutex hands the lock to a goroutine that
\* keeps waiting for it (strong fairness of Lock). The steps of the
\* environment (a request arriving, Do being started, Console returning, a
\* frame or an error on the control socket, a direction of the mirror ending)
\* are not fair.
Fairness ==
    /\ \A h \in Handlers : WF_vars(ConnectRuns(h)) /\ SF_vars(ConnectLocks(h))
    /\ WF_vars(DoRuns) /\ SF_vars(FinLock)
    /\ WF_vars(PumpRuns) /\ SF_vars(PumpLock)
    /\ WF_vars(MirrorRuns) /\ SF_vars(MirrorLock)

LiveSpec == Spec /\ Fairness

\* ------------------------------------------------------------ vocabulary

\* Connect has been called with the secret of channel fd and its upgrade
\* succeeded: a handshake on that channel has occurred.
Handshake(h, fd) ==
    /\ handler[h].pc \notin {"idle"}
    /\ handler[h].secret = fds[fd]
    /\ handler[h].res # "upgrade error"

\* The handshake h has written its connection into its slot.
HasBound(h) ==
    \/ handler[h].pc \in {"sendControl", "checkLock", "check", "sendAll"}
    \/ handler[h].pc = "returned" /\ handler[h].res = "nil"

\* The handshake h has sent its signal (control-ready for the control
\* channel, data-ready for a data channel).
HasSignalled(h) == handler[h].pc = "returned" /\ handler[h].res = "nil"

ControlHandshake == \E h \in Handlers : Handshake(h, ControlFd)

\* The positions of Do inside the finisher.
FinisherPcs == {"finCloseSlave", "finLock", "finGet", "finExit", "finWait", "finCloseMaster"}

\* -------------------------------------------------------------- claims

\* C1: if container.Console returns an error, Do still closes the pty slave,
\* still waits for both directions of the mirror, still closes the pty master,
\* and returns that error.
C1_ErrorStillCleansUp ==
    (doPc = "returned" /\ consoleErr = "console error") =>
        /\ doResult = "console error"
        /\ slave = "closed"
        /\ master = "closed"
        /\ readDone /\ writeDone

\* C2: a handshake whose non-empty secret matches no channel fails with
\* os.ErrPermission; the call binds no connection, sends neither signal and
\* leaves every other part of the session as it was.
C2_BadSecretRefused ==
    [][ \A h \in Handlers :
          ( /\ handler[h].pc = "idle"
            /\ handler'[h].pc # "idle"
            /\ handler'[h].secret # ""
            /\ \A fd \in Fds : fds[fd] # handler'[h].secret )
          => /\ handler'[h].pc = "returned"
             /\ handler'[h].res = "ErrPermission"
             /\ \A fd \in Fds : conns'[fd] # h
             /\ UNCHANGED << tableVars, signalVars, doVars, ptyVars, pumpVars,
                             mirrorVars >>
             /\ \A g \in Handlers \ {h} : handler'[g] = handler[g] ]_vars

\* C2 witness: a handshake was refused with os.ErrPermission and a later one,
\* with the right secret, has bound its connection and returned nil.
C2_Witness ==
    \E h, g \in Handlers :
        /\ h < g
        /\ handler[h].pc = "returned" /\ handler[h].secret = "wrong"
        /\ handler[h].res = "ErrPermission"
        /\ HasSignalled(g) /\ conns[handler[g].fd] = g

\* C3 as claimed: of two handshakes presenting the same valid secret only
\* one binds, and a connection recorded in a slot is never replaced (nor
\* removed) by a later handshake.
C3_NeverReplaced ==
    /\ [](\A h, g \in Handlers :
            (h # g /\ handler[h].secret = handler[g].secret)
                => ~(HasBound(h) /\ HasBound(g)))
    /\ [][ \A fd \in Fds : conns[fd] # Nil => conns'[fd] = conns[fd] ]_vars

\* C3 as amended: a slot goes from absent to present at the first handshake
\* with its secret and is never absent again, but every handshake with a valid
\* secret binds: it leaves its own connection in the slot, in place of the one
\* recorded before.
C3_SlotNeverClearedButReplaced ==
    [][ /\ \A fd \in Fds : conns[fd] # Nil => conns'[fd] # Nil
        /\ \A h \in Handlers :
             (handler[h].pc = "bind" /\ handler'[h].pc # "bind")
             => conns'[handler[h].fd] = h ]_vars

\* C3 witness: two handshakes presented the same secret, both have bound, and
\* the slot holds the connection of the later one, not of the earlier.
C3_Witness ==
    \E h, g \in Handlers :
        /\ h # g
        /\ handler[h].secret = handler[g].secret
        /\ HasSignalled(h)
        /\ HasBound(g)
        /\ conns[handler[g].fd] = g

\* Every data slot holds a connection.
DataSlotsPresent == \A fd \in DataFds : conns[fd] # Nil

\* Do ran its finisher to the end after Console returned nil.
DoReturnedNil == doPc = "returned" /\ consoleErr = "nil"

\* C4: if no control handshake ever occurs, then after Console returned nil
\* the control goroutine leaves its select through controlExit while Do is in
\* the finisher, and once both directions of the mirror have reported Do
\* returns with both of its goroutines ended.
C4_NoControlStillTerminates ==
    /\ [](~ControlHandshake =>
            /\ (doPc \in {"finWait", "finCloseMaster"} \/ DoReturnedNil)
                   => (pumpPc = "exited" /\ pumpExit = "controlExit")
            /\ DoReturnedNil => (mirrorPc = "done" /\ wgEOF = 0 /\ master = "closed"))
    /\ (~ControlHandshake /\ doPc \in FinisherPcs)
           ~> (ControlHandshake \/ pumpExit = "controlExit")
    /\ (~ControlHandshake /\ doPc \in FinisherPcs /\ readDone /\ writeDone)
           ~> (ControlHandshake \/ (DoReturnedNil /\ pumpPc = "exited" /\ mirrorPc = "done"))

\* C4 witness: Do has returned after a successful Console, no control
\* handshake was ever made, and the control goroutine ended through controlExit.
C4_Witness ==
    /\ ~ControlHandshake
    /\ DoReturnedNil
    /\ doResult = "nil"
    /\ pumpExit = "controlExit"

\* C5: the check of the data slots succeeds only when every data slot is
\* present, and no step makes a present slot (data or control) absent again:
\* once all data channels are bound they stay bound.
C5_BoundIsMonotonic ==
    /\ [](AllDataBound(conns) <=> DataSlotsPresent)
    /\ [](\A h \in Handlers : handler[h].pc = "sendAll" => DataSlotsPresent)
    /\ [][ /\ \A fd \in Fds : conns[fd] # Nil => conns'[fd] # Nil
           /\ AllDataBound(conns) => AllDataBound(conns') ]_vars

\* C5 witness: all data channels are bound, a control handshake has bound
\* after that, and Do is already in its finisher.
C5_Witness ==
    /\ DataSlotsPresent
    /\ conns[ControlFd] # Nil
    /\ doPc \in FinisherPcs

\* C6: the pty is opened at most once and only while every data slot is
\* present; allConnected is sent only by a data handshake that found all data
\* slots bound, and Do opens the pty only after receiving from allConnected.
C6_PtyAfterDataReady ==
    /\ [](/\ ptyOpens <= 1
          /\ (master # "none" \/ slave # "none") => (ptyOpens = 1 /\ DataSlotsPresent)
          /\ doPc \notin {"notStarted", "waitAllConnected"} => DataSlotsPresent)
    /\ [][ /\ allConnected' > allConnected =>
                \E h \in Handlers :
                    /\ handler[h].pc = "sendAll"
                    /\ handler'[h].pc = "returned"
                    /\ handler[h].fd \in DataFds
                    /\ DataSlotsPresent
           /\ ptyOpens' # ptyOpens =>
                (doPc = "openPty" /\ ptyOpens = 0 /\ DataSlotsPresent)
           /\ (doPc = "waitAllConnected" /\ doPc' # doPc) =>
                (allConnected > 0 /\ allConnected' = allConnected - 1) ]_vars

\* C6 witness: the pty has been opened.
C6_Witness == ptyOpens = 1 /\ master = "open" /\ slave = "open"

\* C7: a handshake that is about to signal controlConnected or allConnected
\* never has to wait: the send goes through, or is dropped, at once.
C7_SignalNeverBlocks ==
    \A h \in Handlers :
        /\ handler[h].pc = "sendControl" => controlConnected < ChanCap
        /\ handler[h].pc = "sendAll" => allConnected < ChanCap

\* The control handshake has sent control-ready.
ControlSignalled == \E h \in Handlers : HasSignalled(h) /\ handler[h].fd = ControlFd

\* A data handshake has sent data-ready.
DataSignalled == \E h \in Handlers : HasSignalled(h) /\ handler[h].fd \in DataFds

C9_InitialSizeOnce ==
    /\ [](~ControlHandshake =>
            /\ pumpPc \in {"notStarted", "select", "exited"}
            /\ geom \in {NoSize, <<width, height>>}
            /\ doPc \in {"notStarted", "waitAllConnected", "openPty", "setSize"}
                   => (~initSized /\ geom = NoSize)
            /\ (doPc \in ({"spawn", "console"} \cup FinisherPcs)
                    \/ (ptyOpens = 1 /\ doPc = "returned"))
                   => (initSized <=> (width > 0 /\ height > 0)))
    /\ [](~initSized => (geom = NoSize \/ ControlHandshake))
    /\ [][ /\ (initSized' # initSized \/ (geom' # geom /\ ~ControlHandshake)) =>
                /\ doPc = "setSize" /\ doPc' = "spawn"
                /\ ~initSized /\ initSized'
                /\ width > 0 /\ height > 0
                /\ master = "open"
                /\ pumpPc = "notStarted" /\ mirrorPc = "notStarted"
                /\ geom' \in {geom, <<width, height>>} ]_vars

\* C9 witness: a session made with 120x40 has ended without any control
\* handshake; SetSize was called once and the pty is 120 wide and 40 high.
C9_Witness ==
    /\ ~ControlHandshake
    /\ width = 120 /\ height = 40
    /\ DoReturnedNil
    /\ initSized
    /\ geom = <<120, 40>>

\* The argument strings that are base-10 integers, with their values.
Numerals ==
    (<<"8", "0">> :> 80) @@ (<<"+", "8", "0">> :> 80) @@ (<<"2", "4">> :> 24)

\* The frame is a well-formed window-resize whose width and height are numbers.
ValidResize(frame) ==
    /\ frame.json
    /\ frame.command = "window-resize"
    /\ MapGet(frame.args, "width") \in DOMAIN Numerals
    /\ MapGet(frame.args, "height") \in DOMAIN Numerals

\* C10: handling a window-resize frame whose width and height are base-10
\* integers sets the window size to those values (or leaves it when SetSize
\* fails); handling any other frame leaves it unchanged; in every case the
\* control goroutine goes on to its next iteration and Do is not disturbed.
C10_ResizeOrSkip ==
    [][ (pumpPc = "handle" /\ pumpPc' # "handle") =>
          /\ pumpPc' = "loopLock"
          /\ pumpExit' = pumpExit
          /\ UNCHANGED << doVars, master, slave, initSized, tableVars, signalVars >>
          /\ IF ValidResize(pumpFrame)
             THEN geom' \in { geom,
                             << Numerals[MapGet(pumpFrame.args, "width")],
                                Numerals[MapGet(pumpFrame.args, "height")] >> }
             ELSE geom' = geom ]_vars

\* C10 witness: a resize to 80x24 has been applied and the control goroutine,
\* still running, is handling a window-resize whose width is no number.
C10_Witness ==
    /\ geom = <<80, 24>>
    /\ pumpPc = "handle"
    /\ pumpFrame.command = "window-resize"
    /\ MapGet(pumpFrame.args, "width") = <<"8", "x">>
    /\ doPc = "console"

\* C11: a handshake with an empty secret fails with os.ErrPermission, the
\* error of a secret that matches no channel, and binds nothing.
C11_MissingSecretIsErrPermission ==
    \A h \in Handlers :
        (handler[h].pc = "returned" /\ handler[h].secret = "")
            => /\ handler[h].res = "ErrPermission"
               /\ \A fd \in Fds : conns[fd] # h

\* C12: whenever Do has returned after OpenPty succeeded, what it returned is
\* what container.Console returned, error or nil, however the control
\* goroutine and the mirror ended; and Do's result is set once, on return.
C12_ResultIsConsoleResult ==
    /\ []((doPc = "returned" /\ ptyOpens = 1) =>
            (consoleErr \in ConsoleResults /\ doResult = consoleErr))
    /\ [][ doResult' # doResult => (doResult = "none" /\ doPc' = "returned") ]_vars

\* C12 witness: Console returned nil, the control goroutine left its loop on
\* a read error, the finisher ran to the end and Do returned nil.
C12_Witness ==
    /\ DoReturnedNil
    /\ doResult = "nil"
    /\ pumpExit = "break"
    /\ master = "closed"

\* C13: when shared.OpenPty fails, Do returns its error at once: the control
\* goroutine and the mirror goroutine are never started, container.Console is
\* never called, and nothing of the session moves on Do's behalf afterwards.
C13_PtyFailureAborts ==
    /\ []((ptyOpens = 0 /\ doPc \notin {"notStarted", "waitAllConnected", "openPty"})
            => /\ doPc = "returned"
               /\ doResult = "openpty error"
               /\ pumpPc = "notStarted"
               /\ mirrorPc = "notStarted"
               /\ consoleErr = "none"
               /\ wgEOF = 0
               /\ master = "none" /\ slave = "none" /\ ~initSized)
    /\ [][ doResult = "openpty error"
             => UNCHANGED << doVars, ptyVars, pumpVars, mirrorVars >> ]_vars

\* C13 witness: OpenPty failed and Do returned its error while a control-ready
\* signal was waiting for the control goroutine that was never started.
C13_Witness ==
    /\ doPc = "returned"
    /\ doResult = "openpty error"
    /\ controlConnected = 1
    /\ pumpPc = "notStarted"

\* C14: the pty master is closed only by the finisher, after the pty slave
\* was closed and after both directions of the mirror reported and the mirror
\* goroutine called wgEOF.Done(); it is never closed while a direction of the
\* mirror is still running.
C14_MasterClosedLast ==
    /\ [](master = "closed" =>
            /\ slave = "closed"
            /\ readDone /\ writeDone
            /\ mirrorPc = "done"
            /\ wgEOF = 0)
    /\ [][ master' # master /\ master' = "closed" =>
             /\ doPc = "finCloseMaster"
             /\ master = "open"
             /\ slave = "closed"
             /\ readDone /\ writeDone
             /\ ~Mirroring ]_vars

\* C14 witness: the master is closed, after the slave and after a mirror
\* that ran with a control channel connected.
C14_Witness ==
    /\ master = "closed"
    /\ slave = "closed"
    /\ readDone /\ writeDone
    /\ conns[ControlFd] # Nil

\* C15: Close is called on the mirrored data connection at most once, by the
\* mirror goroutine and only after both directions have reported, in
\* whichever order they did; and once both have reported it is called.
C15_DataSocketClosedOnce ==
    /\ [](closes <= 1)
    /\ [](closes = 1 => (readDone /\ writeDone /\ mirrorConn # Nil))
    /\ [][ closes' # closes =>
             /\ closes' = closes + 1
             /\ mirrorPc = "close"
             /\ readDone /\ writeDone ]_vars
    /\ (readDone /\ writeDone) ~> (closes = 1)

\* C15 witness: both directions ended and the data connection was closed
\* while container.Console was still running.
C15_Witness ==
    /\ closes = 1
    /\ mirrorPc = "done"
    /\ doPc = "console"

\* The frame decodes to a command other than window-resize.
OtherCommand(frame) == frame.json /\ frame.command # "window-resize"

\* C16: handling a frame that decodes to a command other than window-resize
\* changes nothing but the control goroutine's own position: the window
\* size, the pty, conns, the lock and both signals stay as they are, the
\* goroutine does not exit, and it comes to read the next frame.
C16_UnknownCommandIgnored ==
    /\ [][ (pumpPc = "handle" /\ OtherCommand(pumpFrame) /\ pumpPc' # pumpPc) =>
             /\ pumpPc' = "loopLock"
             /\ UNCHANGED << sessionVars, tableVars, signalVars, handler, doVars,
                             ptyVars, pumpExit, pumpConn, mirrorVars >> ]_vars
    /\ (pumpPc = "handle" /\ OtherCommand(pumpFrame)) ~> (pumpPc = "read")

\* C16 witness: the control goroutine is handling the command window-close,
\* whose arguments ask for 80x24, on a pty that is 120x40.
C16_Witness ==
    /\ pumpPc = "handle"
    /\ pumpFrame.json
    /\ pumpFrame.command = "window-close"
    /\ geom = <<120, 40>>
    /\ master = "open"

\* The number of activities between a Lock and the Unlock that follows it.
LockHolders ==
    Cardinality({h \in Handlers : handler[h].pc \in {"bind", "check"}})
    + (IF pumpPc = "loopGet" THEN 1 ELSE 0)
    + (IF mirrorPc = "get" THEN 1 ELSE 0)
    + (IF doPc = "finGet" THEN 1 ELSE 0)

\* An activity is waiting in Lock.
HandlerWaitsLock(h) == handler[h].pc \in {"bindLock", "checkLock"}

\* C17: conns is written, and read into a goroutine's local, only by the
\* activity that holds connsLock; the lock is held exactly by an activity
\* between its Lock and its Unlock, so never by one that is upgrading,
\* sending a signal, reading a socket or has returned; and every activity that
\* waits for the lock gets it.
C17_LockAroundConns ==
    /\ [](LockHolders = IF connsLock THEN 1 ELSE 0)
    /\ [][ /\ conns' # conns =>
               (connsLock /\ ~connsLock' /\ \E h \in Handlers : handler[h].pc = "bind")
           /\ pumpConn' # pumpConn => (connsLock /\ ~connsLock' /\ pumpPc = "loopGet")
           /\ mirrorConn' # mirrorConn => (connsLock /\ ~connsLock' /\ mirrorPc = "get")
           /\ (doPc = "finGet" /\ doPc' # doPc) => (connsLock /\ ~connsLock')
           /\ \A h \in Handlers :
                (handler[h].pc = "check" /\ handler'[h].pc # "check")
                    => (connsLock /\ ~connsLock') ]_vars
    /\ \A h \in Handlers : HandlerWaitsLock(h) ~> ~HandlerWaitsLock(h)
    /\ (pumpPc = "loopLock") ~> (pumpPc = "loopGet")
    /\ (mirrorPc = "lock") ~> (mirrorPc = "get")
    /\ (doPc = "finLock") ~> (doPc = "finGet")

\* C17 witness: the mirror goroutine holds the lock to read conns[0] while a
\* control handshake waits for it, after the data handshake went through
\* both of its locked sections and returned.
C17_Witness ==
    /\ connsLock
    /\ mirrorPc = "get"
    /\ \E h, g \in Handlers :
         /\ HasSignalled(h) /\ handler[h].fd \in DataFds
         /\ handler[g].pc = "bindLock"

\* C18: whenever the finisher, having read conns[-1] as nil, is at its send
\* on controlExit, the control goroutine is still in its select, where alone
\* it receives from controlExit; so the send is always taken.
C18_ControlExitAlwaysReceived == doPc = "finExit" => pumpPc = "select"

\* The positions of the control goroutine inside its loop.
PumpLoopPcs == {"loopLock", "loopGet", "read", "handle"}

\* C19: a signal is sent only by a handshake that has bound its slot, so a
\* buffered signal implies a present slot; conns[-1] is present whenever the
\* control goroutine is in its loop and the connection it reads from is never
\* nil; conns[0] is present from the start of the mirror goroutine on and the
\* connection it mirrors is never nil.
C19_BoundBeforeSignalled ==
    /\ [](controlConnected > 0 => conns[ControlFd] # Nil)
    /\ [](allConnected > 0 => DataSlotsPresent)
    /\ [](\A h \in Handlers :
            handler[h].pc \in {"sendControl", "sendAll"} => conns[handler[h].fd] # Nil)
    /\ [](pumpPc \in PumpLoopPcs => conns[ControlFd] # Nil)
    /\ [](pumpPc \in {"read", "handle"} => pumpConn # Nil)
    /\ [](pumpExit # "panic")
    /\ [](mirrorPc # "notStarted" => conns[0] # Nil)
    /\ [](mirrorPc \notin {"notStarted", "lock", "get"} => mirrorConn # Nil)

\* C19 witness: the control goroutine is reading from the control connection
\* and the mirror is running on the data connection.
C19_Witness ==
    /\ pumpPc = "read"
    /\ pumpConn # Nil
    /\ pumpConn = conns[ControlFd]
    /\ Mirroring
    /\ mirrorConn # Nil

\* C20: when Do has run its finisher to the end and returned with the control
\* slot present, the control goroutine has ended: it is not waiting on the
\* control socket and handles no frame once the pty master is closed.
C20_PumpStoppedAtReturn ==
    /\ (DoReturnedNil /\ conns[ControlFd] # Nil) => pumpPc = "exited"
    /\ (master = "closed" /\ conns[ControlFd] # Nil) => pumpPc \notin {"read", "handle"}

====
